---------------------------- MODULE Spec2Model ----------------------------
(***************************************************************************)
(* Model of indoorplants/validation/crossvalidate.py: the k-fold           *)
(* cross-validation pipeline (train_and_score, cv_engine,                  *)
(* format_cv_results, describe_dataframe, cv_score, cv_conf_mat,           *)
(* validate_param_range).                                                  *)
(*                                                                         *)
(* The external collaborators (model fit/predict, scaler, score functions, *)
(* pandas statistics) are uninterpreted: their results are symbolic terms  *)
(* (records naming the function and its arguments), so that which data a   *)
(* value was computed from is visible in the state.                        *)
(***************************************************************************)
EXTENDS Integers, Sequences, FiniteSets, TLC

\* ------------------------------------------------------------------ bounds
NRows == 4          \* rows of the dataset X / y
MaxSplits == 3      \* largest fold count k passed as `splits`
MaxFuncs == 2       \* longest score_funcs list
MaxRange == 2       \* longest param_range

Rows == 1..NRows

\* --------------------------------------------------------- input domains
EstimatorTypes == {"classifier", "regressor", "clusterer"}
ScoreFuncNames == {"accuracy_score", "f1_score", "recall_score"}

\* sequences over S of length lo..hi without repeated elements
DistinctSeqs(S, lo, hi) ==
    UNION { { s \in [1..n -> S] : \A i, j \in 1..n : i # j => s[i] # s[j] }
            : n \in lo..hi }

\* a Python argument that is either a bare object or a list of them
Bare(x) == [kind |-> "bare", val |-> <<x>>]
List(s) == [kind |-> "list", val |-> s]

\* hyper-parameter candidate values: ints and tuples of ints
IntVal(n) == [kind |-> "int", v |-> <<n>>]
TupleVal(t) == [kind |-> "tuple", v |-> t]
NoVal == [kind |-> "none", v |-> <<>>]
ParamValues == {IntVal(1), IntVal(2), IntVal(3), TupleVal(<<1, 2>>)}

\* ------------------------------------------------- external collaborators
\* X.iloc[rows, :] / y.iloc[rows]; `scale` is the row set the scaler was
\* fitted on when the slice was transformed ({} = untransformed)
Slice(rows) == [rows |-> rows, scale |-> {}]
NoData == [rows |-> {}, scale |-> {}]
NoFit == [X |-> NoData, y |-> {}]

\* model_obj.fit(X, y): the fitted state is the data it was fitted on
Fit(X, y) == [X |-> X, y |-> y]
\* model.predict(X): a term naming the fitted state and the features
Predict(fit, X) == [model |-> fit, X |-> X]
\* func(y_true, y_pred)
Score(func, y, y_hat) == [func |-> func, y_true |-> y, y_pred |-> y_hat]


\* ------------------------------------------------------------ fold splitter
\* skf.split(X, y): k folds whose test sets are consecutive blocks of
\* rows, the first NRows % k of them one row larger; train = the rest
FoldSize(i, k) == (NRows \div k) + (IF i <= NRows % k THEN 1 ELSE 0)
FoldStart(i, k) ==
    1 + (i - 1) * (NRows \div k) + (IF i - 1 <= NRows % k THEN i - 1 ELSE NRows % k)
TestRows(i, k) == { r \in Rows : FoldStart(i, k) <= r /\ r < FoldStart(i, k) + FoldSize(i, k) }
Split(k) == [i \in 1..k |-> [train |-> Rows \ TestRows(i, k), test |-> TestRows(i, k)]]

\* keyword arguments the splitter constructors accept
SplitterParams == {"n_splits", "shuffle", "random_state"}
\* keyword arguments cv_engine passes to each constructor
StratifiedKFoldKwargs == {"n_splits", "random_state"}
KFoldKwargs == {"n_splits", "suffle", "random_state"}

\* a constructor call with an unexpected keyword raises TypeError
Construct(cls, kwargs) ==
    IF kwargs \subseteq SplitterParams
    THEN [kind |-> cls, error |-> ""]
    ELSE [kind |-> "none", error |-> "TypeError"]

\* variant: any tag that is not "classifier" falls through to KFold
MakeSplitterNoElse(estimator_type) ==
    IF estimator_type = "classifier"
    THEN [kind |-> "StratifiedKFold", error |-> ""]
    ELSE [kind |-> "KFold", error |-> ""]

\* cv_engine lines 38-45: the splitter chosen from model_obj._estimator_type
MakeSplitter(estimator_type) ==
    CASE estimator_type = "classifier" -> Construct("StratifiedKFold", StratifiedKFoldKwargs)
      [] estimator_type = "regressor" -> Construct("KFold", KFoldKwargs)
      [] OTHER -> [kind |-> "none", error |-> "TypeError"]

\* ------------------------------------------------------------ train_and_score
\* variant: the pair built as (test, train), the test-only case scored on train
apply_score_func_swapped(func, y_train, y_hat_train, y_test, y_hat_test, train_scores) ==
    IF train_scores = TRUE
    THEN <<Score(func, y_test, y_hat_test), Score(func, y_train, y_hat_train)>>
    ELSE Score(func, y_train, y_hat_train)

\* the lambda of lines 21-24
apply_score_func(func, y_train, y_hat_train, y_test, y_hat_test, train_scores) ==
    IF train_scores = TRUE
    THEN <<Score(func, y_train, y_hat_train), Score(func, y_test, y_hat_test)>>
    ELSE Score(func, y_test, y_hat_test)

\* train_and_score: the model is fitted and asked to predict twice before
\* map() iterates score_funcs; a bare callable is not iterable (TypeError).
train_and_score(score_funcs, X_train, y_train, X_test, y_test, train_scores) ==
    LET model == Fit(X_train, y_train)
        y_hat_train == Predict(model, X_train)
        y_hat_test == Predict(model, X_test)
    IN  [ fit |-> model,
          error |-> IF score_funcs.kind = "list" THEN "" ELSE "TypeError",
          scored |-> IF score_funcs.kind = "list" THEN Len(score_funcs.val) ELSE 0,
          result |-> IF score_funcs.kind = "list"
                     THEN [ i \in 1..Len(score_funcs.val) |->
                              apply_score_func(score_funcs.val[i], y_train, y_hat_train,
                                               y_test, y_hat_test, train_scores) ]
                     ELSE <<>> ]

\* variant: results.insert(0, ...)
PrependResult(results, r) == <<r>> \o results

\* results.append(...) of line 59
AppendResult(results, r) == Append(results, r)

\* ---------------------------------------------------------------- scaler
\* scale_obj.fit_transform(X): fits the scaler on X and transforms X with it
FitTransform(X) == [fitted |-> X.rows, out |-> [rows |-> X.rows, scale |-> X.rows]]

\* cv_engine lines 55-57: both slices go through fit_transform
ScaleFold(X_train, X_test) ==
    LET tr == FitTransform(X_train)
        te == FitTransform(X_test)
    IN  [X_train |-> tr.out, X_test |-> te.out, fitted |-> te.fitted, fits |-> 2]

\* ---------------------------------------------------------------- tables
NoTable == [index |-> <<>>, columns |-> <<>>, data |-> <<>>]

RECURSIVE ConcatAll(_)
ConcatAll(seqs) == IF seqs = <<>> THEN <<>> ELSE Head(seqs) \o ConcatAll(Tail(seqs))

\* variant: an index that counts from 1
OneBasedIndex(n) == [i \in 1..n |-> i]

\* the default index of pd.DataFrame(data) with n rows
RangeIndex(n) == [i \in 1..n |-> i - 1]

\* tuple(chain(*trial))
ChainTrial(trial) == ConcatAll(trial)

\* lines 82-89: the (train, test) frame of the score function at offset i
ScoreFrame(res, name, i) ==
    [ index |-> RangeIndex(Len(res)),
      columns |-> << <<name, "train">>, <<name, "test">> >>,
      data |-> [r \in 1..Len(res) |-> SubSeq(res[r], i + 1, i + 2)] ]

\* dfs[0].join(dfs[1:]): frames side by side on the first frame's index
JoinFrames(dfs) ==
    [ index |-> dfs[1].index,
      columns |-> ConcatAll([j \in 1..Len(dfs) |-> dfs[j].columns]),
      data |-> [ r \in 1..Len(dfs[1].data) |->
                   ConcatAll([j \in 1..Len(dfs) |-> dfs[j].data[r]]) ] ]

\* format_cv_results: the flat branch reads `res` before it is assigned
format_cv_results(results, score_funcs, train_scores) ==
    IF train_scores = FALSE
    THEN [error |-> "UnboundLocalError", table |-> NoTable]
    ELSE LET res == [t \in 1..Len(results) |-> ChainTrial(results[t])]
             width == Len(res[1])
             dfs == [ j \in 1..(width \div 2) |->
                        ScoreFrame(res, score_funcs[j], 2 * (j - 1)) ]
         IN  [error |-> "", table |-> JoinFrames(dfs)]

\* -------------------------------------------------------- describe_dataframe
DefaultStats == List(<<"mean", "std">>)

\* lines 115-116
NormalizeStats(stats_to_run) ==
    IF stats_to_run.kind = "bare" THEN <<stats_to_run.val[1]>> ELSE stats_to_run.val

Column(table, c) == [r \in 1..Len(table.data) |-> table.data[r][c]]

\* getattr(results, func_name)(): the statistic of one column
Stat(func_name, column) == [stat |-> func_name, over |-> column]

\* the lambda of lines 118-120
get_stats(results, func_name) ==
    [ index |-> results.columns,
      columns |-> <<func_name>>,
      data |-> [c \in 1..Len(results.columns) |-> <<Stat(func_name, Column(results, c))>>] ]

describe_dataframe(results, stats_to_run) ==
    LET names == NormalizeStats(stats_to_run)
        to_return == [s \in 1..Len(names) |-> get_stats(results, names[s])]
    IN  JoinFrames(to_return)

\* ------------------------------------------------------------- cv_conf_mat
Cell(cm, r, c) == [cm |-> cm, row |-> r, col |-> c]

\* lines 196-204: one labelled 2x2 frame per fold under outer index i
conf_mat_frames(results) ==
    LET frame(i) ==
          [ index |-> << <<i, "neg_true">>, <<i, "pos_true">> >>,
            columns |-> <<"neg_pred", "pos_pred">>,
            data |-> << <<Cell(results[i][1], 1, 1), Cell(results[i][1], 1, 2)>>,
                        <<Cell(results[i][1], 2, 1), Cell(results[i][1], 2, 2)>> >> ]
    IN  [ index |-> ConcatAll([i \in 1..Len(results) |-> frame(i).index]),
          columns |-> <<"neg_pred", "pos_pred">>,
          data |-> ConcatAll([i \in 1..Len(results) |-> frame(i).data]) ]

\* ------------------------------------------------------ validate_param_range
\* isinstance(val, collections.Iterable)
IsIterable(val) == val.kind \in {"tuple", "str"}
\* str(val)
Str(val) == [kind |-> "str", v |-> val.v]
\* lines 264-265
SweepKey(val) == IF IsIterable(val) THEN Str(val) ELSE val

\* results[val] = table: a dict keeps insertion order and one entry per key
DictSet(d, key, table) ==
    IF \E i \in 1..Len(d) : d[i].key = key
    THEN [i \in 1..Len(d) |-> IF d[i].key = key THEN [key |-> key, table |-> table] ELSE d[i]]
    ELSE Append(d, [key |-> key, table |-> table])

\* pd.concat(results): the tables stacked, outer-indexed by key
ConcatDict(d) ==
    [ index |-> ConcatAll([ i \in 1..Len(d) |->
                   [r \in 1..Len(d[i].table.index) |-> <<d[i].key, d[i].table.index[r]>>] ]),
      columns |-> d[1].table.columns,
      data |-> ConcatAll([i \in 1..Len(d) |-> d[i].table.data]) ]


\* ------------------------------------------------------------------- state
VARIABLES
    call,        \* the top-level call: function name and arguments
    pc,          \* position in the call
    eng,         \* score_funcs / train_scores as passed to cv_engine
    val_i,       \* validate_param_range: candidates taken from param_range
    sweep,       \* validate_param_range: the `results` dict
    model_obj,   \* the model: constructor parameter and fitted state
    scale_fit,   \* scale_obj: rows it was last fitted on ({} = never)
    folds,       \* the (train, test) index sets produced by skf.split
    fold,        \* folds taken so far
    X_train, X_test, y_train, y_test,
    results,     \* cv_engine's `results` list
    formatted,   \* the table format_cv_results returned
    ret,         \* the value the top-level call returned
    exc,         \* the exception the top-level call raised ("" = none)
    calls        \* how often each collaborator has been called

vars == <<call, pc, eng, val_i, sweep, model_obj, scale_fit, folds, fold,
          X_train, X_test, y_train, y_test, results, formatted, ret, exc, calls>>

NoCalls == [split |-> 0, scale |-> 0, fit |-> 0, predict |-> 0, score |-> 0]

ScoreFuncLists == { List(s) : s \in DistinctSeqs(ScoreFuncNames, 1, MaxFuncs) }
ScoreFuncArgs == ScoreFuncLists \cup { Bare(f) : f \in ScoreFuncNames }
StatsArgs == {DefaultStats, List(<<"median">>), List(<<"std", "mean">>), Bare("median")}
ParamRanges == UNION { [1..n -> ParamValues] : n \in 1..MaxRange }
SplitCounts == 2..MaxSplits

\* the calls a client can make, with the arguments each function takes
Calls ==
    { [fn |-> "cv_engine", estimator_type |-> t, score_funcs |-> sf, splits |-> k,
       scale |-> sc, train_scores |-> ts, stats_to_run |-> DefaultStats,
       param_range |-> <<>>]
        : t \in EstimatorTypes, sf \in ScoreFuncLists, k \in SplitCounts,
          sc \in BOOLEAN, ts \in BOOLEAN }
    \cup
    { [fn |-> "cv_score", estimator_type |-> t, score_funcs |-> sf, splits |-> k,
       scale |-> sc, train_scores |-> ts, stats_to_run |-> st,
       param_range |-> <<>>]
        : t \in EstimatorTypes, sf \in ScoreFuncArgs, k \in SplitCounts,
          sc \in BOOLEAN, ts \in BOOLEAN, st \in StatsArgs }
    \cup
    { [fn |-> "cv_conf_mat", estimator_type |-> t, score_funcs |-> List(<<>>),
       splits |-> k, scale |-> sc, train_scores |-> FALSE,
       stats_to_run |-> DefaultStats, param_range |-> <<>>]
        : t \in EstimatorTypes, k \in SplitCounts, sc \in BOOLEAN }
    \cup
    { [fn |-> "validate_param_range", estimator_type |-> t, score_funcs |-> sf,
       splits |-> k, scale |-> sc, train_scores |-> ts,
       stats_to_run |-> DefaultStats, param_range |-> pr]
        : t \in EstimatorTypes, sf \in ScoreFuncLists, k \in SplitCounts,
          sc \in BOOLEAN, ts \in BOOLEAN, pr \in ParamRanges }

Init ==
    /\ call \in Calls
    /\ pc = "call"
    /\ eng = [score_funcs |-> List(<<>>), train_scores |-> FALSE]
    /\ val_i = 0
    /\ sweep = <<>>
    /\ model_obj = [param |-> NoVal, fit |-> NoFit]
    /\ scale_fit = {}
    /\ folds = <<>>
    /\ fold = 0
    /\ X_train = NoData /\ X_test = NoData
    /\ y_train = {} /\ y_test = {}
    /\ results = <<>>
    /\ formatted = NoTable
    /\ ret = <<>>
    /\ exc = ""
    /\ calls = NoCalls

\* ----------------------------------------------------------------- actions
\* cv_score lines 176-177
NormalizeScoreFuncs(score_funcs) ==
    IF score_funcs.kind = "bare" THEN List(score_funcs.val) ELSE score_funcs

\* the arguments each entry point hands to cv_engine
EngineArgs(c) ==
    CASE c.fn = "cv_score" ->
           [score_funcs |-> NormalizeScoreFuncs(c.score_funcs), train_scores |-> c.train_scores]
      [] c.fn = "cv_conf_mat" ->
           [score_funcs |-> Bare("confusion_matrix"), train_scores |-> FALSE]
      [] OTHER ->
           [score_funcs |-> c.score_funcs, train_scores |-> c.train_scores]

\* the statistics cv_score hands to describe_dataframe (line 179: none,
\* so describe_dataframe's default applies)
StatsPassed(stats_to_run) == DefaultStats

\* entry into the called function, up to its call of cv_engine
Call ==
    /\ pc = "call"
    /\ eng' = EngineArgs(call)
    /\ pc' = IF call.fn = "validate_param_range" THEN "sweep" ELSE "engine"
    /\ UNCHANGED <<call, val_i, sweep, model_obj, scale_fit, folds, fold, X_train,
                   X_test, y_train, y_test, results, formatted, ret, exc, calls>>

\* validate_param_range: the head of `for val in param_range` (a new model
\* per candidate), and `return pd.concat(results)` once the range is done
SweepStep ==
    /\ pc = "sweep"
    /\ IF val_i < Len(call.param_range)
       THEN /\ val_i' = val_i + 1
            /\ model_obj' = [param |-> call.param_range[val_i + 1], fit |-> NoFit]
            /\ pc' = "engine"
            /\ UNCHANGED ret
       ELSE /\ ret' = ConcatDict(sweep)
            /\ pc' = "done"
            /\ UNCHANGED <<val_i, model_obj>>
    /\ UNCHANGED <<call, eng, sweep, scale_fit, folds, fold, X_train, X_test,
                   y_train, y_test, results, formatted, exc, calls>>

\* cv_engine lines 38-48: choose the splitter, start the fold loop
EngineStart ==
    /\ pc = "engine"
    /\ LET skf == MakeSplitter(call.estimator_type)
       IN  IF skf.error # ""
           THEN /\ exc' = skf.error
                /\ pc' = "done"
                /\ UNCHANGED <<folds, fold, results, calls>>
           ELSE /\ folds' = Split(call.splits)
                /\ fold' = 0
                /\ results' = <<>>
                /\ calls' = [calls EXCEPT !.split = @ + 1]
                /\ pc' = "fold"
                /\ UNCHANGED exc
    /\ UNCHANGED <<call, eng, val_i, sweep, model_obj, scale_fit, X_train, X_test,
                   y_train, y_test, formatted, ret>>

\* cv_engine lines 48-53: take the next fold and slice X and y
FoldSlice ==
    /\ pc = "fold"
    /\ fold < Len(folds)
    /\ fold' = fold + 1
    /\ y_train' = folds[fold + 1].train
    /\ y_test' = folds[fold + 1].test
    /\ X_train' = Slice(folds[fold + 1].train)
    /\ X_test' = Slice(folds[fold + 1].test)
    /\ pc' = IF call.scale THEN "scale" ELSE "train"
    /\ UNCHANGED <<call, eng, val_i, sweep, model_obj, scale_fit, folds, results,
                   formatted, ret, exc, calls>>

\* cv_engine lines 55-57
FoldScale ==
    /\ pc = "scale"
    /\ LET s == ScaleFold(X_train, X_test)
       IN  /\ X_train' = s.X_train
           /\ X_test' = s.X_test
           /\ scale_fit' = s.fitted
           /\ calls' = [calls EXCEPT !.scale = @ + s.fits]
    /\ pc' = "train"
    /\ UNCHANGED <<call, eng, val_i, sweep, model_obj, folds, fold, y_train, y_test,
                   results, formatted, ret, exc>>

\* cv_engine lines 59-62: train_and_score on the fold, result appended
FoldTrain ==
    /\ pc = "train"
    /\ LET r == train_and_score(eng.score_funcs, X_train, y_train, X_test, y_test,
                                eng.train_scores)
       IN  /\ model_obj' = [model_obj EXCEPT !.fit = r.fit]
           /\ calls' = [calls EXCEPT !.fit = @ + 1, !.predict = @ + 2,
                                     !.score = @ + r.scored *
                                               (IF eng.train_scores = TRUE THEN 2 ELSE 1)]
           /\ IF r.error # ""
              THEN /\ exc' = r.error
                   /\ pc' = "done"
                   /\ UNCHANGED results
              ELSE /\ results' = AppendResult(results, r.result)
                   /\ pc' = "fold"
                   /\ UNCHANGED exc
    /\ UNCHANGED <<call, eng, val_i, sweep, scale_fit, folds, fold, X_train, X_test,
                   y_train, y_test, formatted, ret>>

\* cv_engine line 64 and what the caller does with the returned list:
\* cv_engine itself returns it, cv_conf_mat reshapes it (lines 196-204),
\* cv_score and validate_param_range pass it to format_cv_results
EngineReturn ==
    /\ pc = "fold"
    /\ fold = Len(folds)
    /\ CASE call.fn = "cv_engine" -> ret' = results /\ pc' = "done"
         [] call.fn = "cv_conf_mat" -> ret' = conf_mat_frames(results) /\ pc' = "done"
         [] OTHER -> pc' = "format" /\ UNCHANGED ret
    /\ UNCHANGED <<call, eng, val_i, sweep, model_obj, scale_fit, folds, fold, X_train,
                   X_test, y_train, y_test, results, formatted, exc, calls>>

\* format_cv_results(res, score_funcs, train_scores) in cv_score (line 180)
\* and in validate_param_range (line 268, stored under the candidate's key)
Format ==
    /\ pc = "format"
    /\ LET f == format_cv_results(results, eng.score_funcs.val, eng.train_scores)
       IN  IF f.error # ""
           THEN /\ exc' = f.error
                /\ pc' = "done"
                /\ UNCHANGED <<formatted, sweep>>
           ELSE /\ formatted' = f.table
                /\ IF call.fn = "validate_param_range"
                   THEN /\ sweep' = DictSet(sweep, SweepKey(call.param_range[val_i]), f.table)
                        /\ pc' = "sweep"
                   ELSE /\ pc' = "describe"
                        /\ UNCHANGED sweep
                /\ UNCHANGED exc
    /\ UNCHANGED <<call, eng, val_i, model_obj, scale_fit, folds, fold, X_train, X_test,
                   y_train, y_test, results, ret, calls>>

\* cv_score line 179: describe_dataframe on the formatted table
Describe ==
    /\ pc = "describe"
    /\ ret' = describe_dataframe(formatted, StatsPassed(call.stats_to_run))
    /\ pc' = "done"
    /\ UNCHANGED <<call, eng, val_i, sweep, model_obj, scale_fit, folds, fold, X_train,
                   X_test, y_train, y_test, results, formatted, exc, calls>>

Next ==
    \/ Call
    \/ SweepStep
    \/ EngineStart
    \/ FoldSlice
    \/ FoldScale
    \/ FoldTrain
    \/ EngineReturn
    \/ Format
    \/ Describe

Spec == Init /\ [][Next]_vars

\* the call has ended by returning / by raising
Returned == pc = "done" /\ exc = ""
Raised == pc = "done" /\ exc # ""


\* ------------------------------------------------------------------ claims
\* the features train_and_score receives for fold i of a k-fold run
FoldX(i, k, scaled) ==
    IF scaled
    THEN ScaleFold(Slice(Split(k)[i].train), Slice(Split(k)[i].test))
    ELSE [X_train |-> Slice(Split(k)[i].train), X_test |-> Slice(Split(k)[i].test)]

\* what train_and_score yields on fold i of the splitter
FoldResult(i) ==
    train_and_score(eng.score_funcs,
                    FoldX(i, call.splits, call.scale).X_train, Split(call.splits)[i].train,
                    FoldX(i, call.splits, call.scale).X_test, Split(call.splits)[i].test,
                    eng.train_scores).result

\* C1: with a scaler supplied, when a fold's test features have been
\* transformed (the fold is about to be trained on), the scaler's last fit was
\* on that fold's training rows and the test features carry that fit.
C1_ScalerFittedOnTrainOnly ==
    (pc = "train" /\ call.scale) =>
        /\ scale_fit = folds[fold].train
        /\ X_test.scale = folds[fold].train

\* C2: for a classifier and a list of score functions, the results list
\* always holds, in fold order, the train_and_score result of each fold
\* processed so far, and cv_engine returns the list of all k of them.
C2_ResultsInFoldOrder ==
    (call.estimator_type = "classifier" /\ pc # "call" /\ eng.score_funcs.kind = "list") =>
        /\ pc \in {"fold", "scale", "train"} =>
              /\ Len(results) = (IF pc = "fold" THEN fold ELSE fold - 1)
              /\ \A i \in 1..Len(results) : results[i] = FoldResult(i)
        /\ (call.fn = "cv_engine" /\ pc = "done") =>
              /\ exc = ""
              /\ Len(ret) = call.splits
              /\ \A i \in 1..call.splits : ret[i] = FoldResult(i)

C2_Witness ==
    /\ call.fn = "cv_engine" /\ call.estimator_type = "classifier"
    /\ Returned /\ call.scale
    /\ Len(ret) = call.splits /\ Len(ret) >= 3

\* C3: with a type tag that is neither classifier nor regressor the call
\* raises before any fold: no split, no scaler fit, no model fit or predict,
\* no score function call, no results, nothing returned.
C3_UnsupportedTypeRaisesFirst ==
    (call.estimator_type \notin {"classifier", "regressor"}) =>
        /\ calls = NoCalls
        /\ model_obj.fit = NoFit
        /\ scale_fit = {}
        /\ folds = <<>> /\ fold = 0
        /\ results = <<>>
        /\ ret = <<>>
        /\ pc \in {"call", "sweep", "engine", "done"}
        /\ pc = "done" => exc = "TypeError"

C3_Witness ==
    /\ call.fn = "cv_engine" /\ call.estimator_type = "clusterer"
    /\ Raised /\ exc = "TypeError" /\ calls = NoCalls

\* C4: a regressor-tagged cv_engine call is no error case: it processes
\* every fold and returns one result per fold.
C4_RegressorOneResultPerFold ==
    (call.fn = "cv_engine" /\ call.estimator_type = "regressor" /\ pc = "done") =>
        /\ exc = ""
        /\ Len(ret) = call.splits

\* C5: train_and_score returns one entry per score function, in order:
\* the pair (f(y_train, predictions on X_train), f(y_test, predictions on
\* X_test)) with train_scores, the test score alone without, all predictions
\* from the model fitted on (X_train, y_train).
C5_TrainAndScoreEntries ==
    (pc = "fold" /\ fold >= 1) =>
        LET r == results[fold]
            fs == eng.score_funcs.val
            m == [X |-> X_train, y |-> y_train]
            tr(f) == [func |-> f, y_true |-> y_train, y_pred |-> [model |-> m, X |-> X_train]]
            te(f) == [func |-> f, y_true |-> y_test, y_pred |-> [model |-> m, X |-> X_test]]
        IN  /\ model_obj.fit = m
            /\ Len(r) = Len(fs)
            /\ \A i \in 1..Len(fs) :
                 IF eng.train_scores
                 THEN r[i] = <<tr(fs[i]), te(fs[i])>>
                 ELSE r[i] = te(fs[i])

C5_Witness ==
    /\ pc = "fold" /\ fold >= 1 /\ Len(results) = fold
    /\ Len(eng.score_funcs.val) = 2
    /\ eng.train_scores = FALSE
    /\ Len(results[fold]) = 2

\* C6: format_cv_results returns a table of k rows and n (flat) or 2n (with
\* train scores) columns in score_funcs order, for both values of train_scores.
C6_FormatShape ==
    (call.fn = "cv_score" /\ call.estimator_type = "classifier"
        /\ pc \in {"describe", "done"}) =>
        /\ exc = ""
        /\ Len(formatted.data) = call.splits
        /\ Len(formatted.columns) =
             (IF eng.train_scores THEN 2 ELSE 1) * Len(eng.score_funcs.val)
        /\ \A j \in 1..Len(eng.score_funcs.val) :
             IF eng.train_scores
             THEN /\ formatted.columns[2 * j - 1] = <<eng.score_funcs.val[j], "train">>
                  /\ formatted.columns[2 * j] = <<eng.score_funcs.val[j], "test">>
             ELSE formatted.columns[j] = eng.score_funcs.val[j]

\* the scores of fold i sit in row i of the formatted table
RowHoldsFold(i) ==
    \A j \in 1..Len(eng.score_funcs.val) :
        /\ formatted.data[i][2 * j - 1] = results[i][j][1]
        /\ formatted.data[i][2 * j] = results[i][j][2]

\* a table has just been returned by format_cv_results
FormatReturned == pc \in {"describe", "sweep"} /\ formatted # NoTable

\* C7 (as stated): the table's row labels are 1..k, the row labelled i
\* holding the scores of fold i.
C7_IndexOneBased ==
    FormatReturned =>
        /\ Len(formatted.index) = Len(results)
        /\ \A i \in 1..Len(results) : formatted.index[i] = i /\ RowHoldsFold(i)

\* C7 (amended): the table's row labels are 0..k-1, the row labelled i-1
\* holding the scores of fold i.
C7_IndexZeroBased ==
    FormatReturned =>
        /\ Len(formatted.index) = Len(results)
        /\ Len(formatted.data) = Len(results)
        /\ \A i \in 1..Len(results) : formatted.index[i] = i - 1 /\ RowHoldsFold(i)

C7_Witness ==
    /\ pc = "describe" /\ Len(results) >= 3
    /\ Len(formatted.index) = Len(results)
    /\ Len(eng.score_funcs.val) = 2

\* C8: cv_score's summary table has exactly the statistics of the caller's
\* stats_to_run as columns, in order (a single name as a one-element list).
C8_StatsAsRequested ==
    (call.fn = "cv_score" /\ Returned) =>
        ret.columns = (IF call.stats_to_run.kind = "bare"
                       THEN <<call.stats_to_run.val[1]>>
                       ELSE call.stats_to_run.val)

\* C9: cv_conf_mat on a classifier returns every fold's labelled 2x2 test
\* confusion matrix under outer index i = 1..k, in fold order.
C9_ConfMatPerFold ==
    (call.fn = "cv_conf_mat" /\ call.estimator_type = "classifier" /\ pc = "done") =>
        /\ exc = ""
        /\ Len(ret.index) = 2 * call.splits
        /\ ret.columns = <<"neg_pred", "pos_pred">>
        /\ \A i \in 1..call.splits :
             /\ ret.index[2 * i - 1] = <<i, "neg_true">>
             /\ ret.index[2 * i] = <<i, "pos_true">>
             /\ ret.data[2 * i - 1][1].cm.y_true = Split(call.splits)[i].test

\* C10: validate_param_range returns a table with exactly one top-level key
\* per candidate value (str(v) for a sequence), each with fold-count rows, for
\* both values of train_scores.
C10_OneKeyPerCandidate ==
    (call.fn = "validate_param_range" /\ call.estimator_type = "classifier"
        /\ pc = "done") =>
        /\ exc = ""
        /\ { ret.index[r][1] : r \in 1..Len(ret.index) }
             = { (IF v.kind = "tuple" THEN [kind |-> "str", v |-> v.v] ELSE v)
                   : v \in { call.param_range[n] : n \in 1..Len(call.param_range) } }
        /\ \A key \in { ret.index[r][1] : r \in 1..Len(ret.index) } :
             Cardinality({ r \in 1..Len(ret.index) : ret.index[r][1] = key }) = call.splits

=============================================================================
